---- MODULE Spec2Model ----
(***************************************************************************)
(* Emax Weather Station integration: the cloud API client                  *)
(* (api_client.py), the refresh coordinator and the config entry life      *)
(* cycle (__init__.py), the config flow (config_flow.py) and the sensor    *)
(* platform (sensor.py).                                                   *)
(***************************************************************************)
EXTENDS Integers, Sequences, FiniteSets, TLC

VARIABLES
    token,          \* EmaxWeatherAPIClient.token
    user_data,      \* EmaxWeatherAPIClient.user_data
    session,        \* EmaxWeatherAPIClient._session: "none", "open", "closed"
    open_sessions,  \* connections the client created and has not closed
    data,           \* coordinator.data: <<>> is None, <<s>> holds snapshot s
    last_update_success, \* coordinator.last_update_success
    last,           \* record of the most recent completed operation
    lastGood,       \* content of the most recent realtime response a refresh accepted
    channels,       \* channel set the sensor platform discovered (<<>> before setup)
    entities,       \* entities the sensor platform created: <<channel, key>>
    reading,        \* outcome of the most recent native_value evaluation
    reread,         \* outcome of evaluating the same native_value once more
    entry_state,    \* "no_entry": the client serves a caller outside a config entry;
                    \* "not_loaded", "setup_retry", "loaded", "unloaded",
                    \* "reload_failed": the config entry
    hass_data,      \* hass.data[DOMAIN][entry_id] holds the coordinator and the client
    platforms,      \* the sensor platform is set up for the entry
    service,        \* the refresh_weather service is registered
    scan_interval,  \* entry.options["scan_interval"], 0 when not set
    update_interval \* coordinator.update_interval, in minutes

vars == <<token, user_data, session, open_sessions, data, last_update_success, last,
          lastGood, channels, entities, reading, reread, entry_state, hass_data,
          platforms, service, scan_interval, update_interval>>

clientVars == <<token, user_data, session, open_sessions>>
coordVars == <<data, last_update_success, lastGood>>
sensorVars == <<channels, entities, reading, reread>>
entryVars == <<entry_state, hass_data, platforms, service, scan_interval, update_interval>>

(***************************************************************************)
(* Python values.  None is the string "None"; a falsy token is None or "". *)
(***************************************************************************)
None == "None"

Falsy(t) == t \in {None, ""}

\* Tokens the vendor may put in content.token
ServerTokens == {"abc123", "tok2", ""}

\* JSON scalars: [k |-> "none"] is None / key absent, "num" a number n/d,
\* "text" a string.
NoneV == [k |-> "none", n |-> 0, d |-> 1]

Num(x) == [k |-> "num", n |-> x, d |-> 1]

Frac(x, y) == [k |-> "num", n |-> x, d |-> y]

Text == [k |-> "text", n |-> 0, d |-> 1]

IsNone(v) == v.k = "none"

IsNumber(v) == v.k = "num"

\* v == c for a Python number v and an integer literal c
NumEq(v, c) == v.k = "num" /\ v.n = c * v.d

(***************************************************************************)
(* Raw snapshot (content of the getRealtime response).                     *)
(***************************************************************************)
\* Sensor type codes (const.py)
SENSOR_TYPE_TEMPERATURE == 1

SENSOR_TYPE_HUMIDITY == 2

SENSOR_TYPE_WIND_SPEED == 3

SENSOR_TYPE_RAINFALL == 4

SENSOR_TYPE_NOISE == 5

SENSOR_TYPE_LIGHT == 6

SENSOR_TYPE_PRESSURE == 7

\* Vendor sentinel values tested by native_value
SENTINEL_WORD == 65535

SENTINEL_BYTE == 255

\* Refresh interval in minutes (const.py)
SCAN_INTERVAL == 10

\* The `channel` field of a sensorDatas entry as it arrives: an integer, a
\* numeric string, absent, null, or a string that is no number.
ChInt(n) == [k |-> "int", n |-> n]

ChStr(n) == [k |-> "str", n |-> n]

ChMissing == [k |-> "missing", n |-> 0]

ChNull == [k |-> "null", n |-> 0]

ChBad == [k |-> "bad", n |-> 0]

\* int(sensor.get("channel", -1)): ok is FALSE where int() raises TypeError
\* (null) or ValueError (non-numeric string).
ChannelInt(sensor) ==
    LET ch == sensor.channel IN
    CASE ch.k = "missing" -> [ok |-> TRUE, n |-> -1]
      [] ch.k \in {"int", "str"} -> [ok |-> TRUE, n |-> ch.n]
      [] OTHER -> [ok |-> FALSE, n |-> 0]

\* A nested sub-structure (devWindVal, devNoiseVals, ...): key absent, null,
\* or a map from field names to JSON scalars.
EmptyFields == [f \in {} |-> NoneV]

NoMap == [k |-> "nokey", m |-> EmptyFields]

NullMap == [k |-> "null", m |-> EmptyFields]

Map(m) == [k |-> "map", m |-> m]

\* sensor.get(name, {}): the default applies only when the key is absent
GetMap(nm) == IF nm.k = "nokey" THEN Map(EmptyFields) ELSE nm

\* dict.get(field) on a nested map
MapGet(nm, f) == IF f \in DOMAIN nm.m THEN nm.m[f] ELSE NoneV

\* truthiness of s.get("devWindVal")
MapTruthy(nm) == nm.k = "map" /\ DOMAIN nm.m # {}

Entry(ch, ty, cur, wind, rain, noise, light) ==
    [channel |-> ch, type |-> ty, curVal |-> cur, devWindVal |-> wind,
     devRainfullVals |-> rain, devNoiseVals |-> noise, devLightVals |-> light]

TopFields == {"atmos", "deviceMac", "updateTime", "devTimezone", "devTime",
              "wirelessStatus", "powerStatus", "weatherStatus"}

NoTop == [f \in TopFields |-> NoneV]

Snapshot(hasSD, sd, top) == [hasSensorDatas |-> hasSD, sensorDatas |-> sd, top |-> top]

\* `not content` for a decoded JSON object: the empty dict is falsy
IsEmptyDict(s) == ~s.hasSensorDatas /\ \A f \in TopFields : IsNone(s.top[f])

EmptyDict == Snapshot(FALSE, <<>>, NoTop)

\* `not self.coordinator.data` / `coordinator.data or {}`
NoData(d) == d = <<>> \/ IsEmptyDict(d[1])

\* data.get("sensorDatas", [])
SensorDatas(d) == IF NoData(d) \/ ~d[1].hasSensorDatas THEN <<>> ELSE d[1].sensorDatas

(***************************************************************************)
(* EmaxWeatherAPIClient (api_client.py).  Operators take the client as a   *)
(* record c = [token, user_data, session] and the vendor's response(s) as  *)
(* input, and return the client afterwards with what the caller saw.  Two   *)
(* more fields count connections: open_sessions those created and not yet  *)
(* closed, created those created since the running operation began.        *)
(***************************************************************************)
Client ==
    [token |-> token, user_data |-> user_data, session |-> session,
     open_sessions |-> open_sessions, created |-> 0]

\* user_data before any login, and the content dict a login stores
NoUserData == [token |-> None, nickname |-> None]

LoginContent(t) == [token |-> t, nickname |-> "Home"]

\* EmaxWeatherAPIClient.__init__: no token, no user data, no session
FreshClient ==
    [token |-> None, user_data |-> NoUserData, session |-> "none",
     open_sessions |-> 0, created |-> 0]

\* What a request can end in: the call times out, the transport fails, the
\* body is not JSON, the body is JSON but no object, or a JSON object arrives.
ResponseKinds == {"timeout", "transport", "badjson", "nonobject", "object"}

\* Login responses.  content: "missing" (no content key / null), "empty" ({}),
\* "notoken" (a dict without token), "dict" (a dict with token t).
LoginResp(k, content, t) == [k |-> k, content |-> content, token |-> t]

LoginResponses ==
    {LoginResp(k, "missing", None) : k \in ResponseKinds \ {"object"}}
    \cup {LoginResp("object", c, None) : c \in {"missing", "empty", "notoken"}}
    \cup {LoginResp("object", "dict", t) : t \in ServerTokens}

\* Responses to the authenticated GETs.  http is the HTTP status, status the
\* vendor status field ("missing" when absent), content <<>> when the key is
\* absent and <<x>> when present; hist names a history/device payload.
GetResp(k, http, status, content, other) ==
    [k |-> k, http |-> http, status |-> status, content |-> content, other |-> other]

\* The exception a failed exchange raises inside the operation's try block
ExcOf(k) ==
    CASE k = "timeout" -> "TimeoutError"
      [] k = "transport" -> "ClientError"
      [] k = "badjson" -> "JSONDecodeError"
      [] k = "nonobject" -> "AttributeError"
      [] OTHER -> "none"

\* Underlying cause of a failed exchange, kept for diagnosis
CauseOf(k) ==
    CASE k = "timeout" -> "timeout"
      [] k = "transport" -> "transport"
      [] k \in {"badjson", "nonobject"} -> "malformed"
      [] OTHER -> "none"

\* isinstance(exc, cls) for the except clauses the client uses
IsInstance(exc, cls) ==
    \/ cls = "Exception"
    \/ cls = exc

\* Whether one of the except clauses `handlers` catches exc
Catches(handlers, exc) == \E i \in 1..Len(handlers) : IsInstance(exc, handlers[i])

Req(m, path, tok) == [m |-> m, path |-> path, emaxToken |-> tok]

NoHeader == "-"

\* Variant of GetSession that creates a session on every call
GetSessionAlwaysNew(c) ==
    [c EXCEPT !.session = "open", !.open_sessions = @ + 1, !.created = @ + 1]

\* _get_session: create a session when none is held or the held one is closed
GetSession(c) ==
    IF c.session = "none" \/ c.session = "closed"
    THEN [c EXCEPT !.session = "open", !.open_sessions = @ + 1, !.created = @ + 1]
    ELSE c

\* Result of a client operation.  ret: "True"/"False" (login), "None",
\* "content", "[]"; raised: the exception that left the operation ("none"
\* when it returned); content: the snapshot returned, if any; other: the
\* history / device payload returned, if any; reqs: the requests issued;
\* logins: one record per async_login run inside the operation.
Result(c, ret, raised, content, other, reqs, logins, cause) ==
    [c |-> c, ret |-> ret, raised |-> raised, content |-> content, other |-> other,
     reqs |-> reqs, logins |-> logins, cause |-> cause]

LoginRec(pre, post, ret, r) == [pre |-> pre, post |-> post, ret |-> ret, resp |-> r]

\* try/except around an operation body: an exception one of `handlers`
\* catches becomes the return value failret; any other leaves the operation.
Guarded(handlers, b, failret) ==
    IF b.raised # "none" /\ Catches(handlers, b.raised)
    THEN [b EXCEPT !.ret = failret, !.raised = "none"]
    ELSE b

\* The except clauses of the four operations
LoginHandlers == <<"TimeoutError", "Exception">>

RealtimeHandlers == <<"TimeoutError", "Exception">>

\* Variant of HistoryHandlers that catches timeouts only
HistoryHandlersNarrow == <<"TimeoutError">>

HistoryHandlers == <<"Exception">>

DevicesHandlers == <<"Exception">>

\* Variant of AsyncLoginBody that drops the held token when the response
\* carries none
AsyncLoginBodyClears(c, r) ==
    LET c1 == GetSession(c)
        reqs == <<Req("POST", "/account/login", NoHeader)>>
        exc == ExcOf(r.k)
        ok == [c1 EXCEPT !.token = r.token, !.user_data = LoginContent(r.token)]
        cleared == [c1 EXCEPT !.token = None, !.user_data = NoUserData]
    IN  IF exc # "none"
        THEN Result(c1, "-", exc, <<>>, None, reqs, <<>>, CauseOf(r.k))
        ELSE IF r.content \in {"missing", "empty"} \/ r.content = "notoken"
             THEN Result(cleared, "False", "none", <<>>, None, reqs, <<>>, "notoken")
             ELSE Result(ok, "True", "none", <<>>, None, reqs, <<>>, "none")

\* async_login, the body of its try block
AsyncLoginBody(c, r) ==
    LET c1 == GetSession(c)
        reqs == <<Req("POST", "/account/login", NoHeader)>>
        exc == ExcOf(r.k)
        ok == [c1 EXCEPT !.token = r.token, !.user_data = LoginContent(r.token)]
    IN  IF exc # "none"
        THEN Result(c1, "-", exc, <<>>, None, reqs, <<>>, CauseOf(r.k))
        ELSE IF r.content \in {"missing", "empty"} \/ r.content = "notoken"
             THEN Result(c1, "False", "none", <<>>, None, reqs, <<>>, "notoken")
             ELSE Result(ok, "True", "none", <<>>, None, reqs, <<>>, "none")

\* async_login
AsyncLogin(c, r) ==
    LET b == Guarded(LoginHandlers, AsyncLoginBody(c, r), "False")
    IN  [b EXCEPT !.logins = <<LoginRec(c, b.c, b.ret, r)>>]

\* Variant of EnsureToken that goes on to the GET whatever the login returned
EnsureTokenIgnoresLogin(c, rl) ==
    IF Falsy(c.token)
    THEN [AsyncLogin(c, rl) EXCEPT !.ret = "go"]
    ELSE Result(c, "go", "none", <<>>, None, <<>>, <<>>, "none")

\* `if not self.token: if not await self.async_login(): return None`, the
\* opening of the three authenticated operations.  go: the operation goes on
\* to its GET.
EnsureToken(c, rl) ==
    IF Falsy(c.token)
    THEN LET l == AsyncLogin(c, rl)
         IN  [l EXCEPT !.ret = IF l.raised = "none" /\ l.ret = "True" THEN "go" ELSE "None"]
    ELSE Result(c, "go", "none", <<>>, None, <<>>, <<>>, "none")

\* async_get_realtime_weather, the body of its try block
AsyncGetRealtimeWeatherBody(c, rl, rg) ==
    LET p == EnsureToken(c, rl)
        c2 == GetSession(p.c)
        reqs == Append(p.reqs, Req("GET", "/weather/devData/getRealtime", c2.token))
        exc == ExcOf(rg.k)
    IN  IF p.ret # "go"
        THEN p
        ELSE IF exc # "none"
        THEN Result(c2, "-", exc, <<>>, None, reqs, p.logins, CauseOf(rg.k))
        ELSE IF rg.content = <<>> \/ IsEmptyDict(rg.content[1])
        THEN Result(c2, "None", "none", <<>>, None, reqs, p.logins, "nocontent")
        ELSE Result(c2, "content", "none", rg.content, None, reqs, p.logins, "none")

\* async_get_realtime_weather
AsyncGetRealtimeWeather(c, rl, rg) ==
    Guarded(RealtimeHandlers, AsyncGetRealtimeWeatherBody(c, rl, rg), "None")

\* async_get_weather_history, the body of its try block
AsyncGetWeatherHistoryBody(c, rl, rg) ==
    LET p == EnsureToken(c, rl)
        c2 == GetSession(p.c)
        reqs == Append(p.reqs, Req("GET", "/weather/devData/getRecord", c2.token))
        exc == ExcOf(rg.k)
    IN  IF p.ret # "go"
        THEN p
        ELSE IF rg.k \in {"timeout", "transport"}
        THEN Result(c2, "-", exc, <<>>, None, reqs, p.logins, CauseOf(rg.k))
        ELSE IF rg.http # 200
        THEN Result(c2, "None", "none", <<>>, None, reqs, p.logins, "http")
        ELSE IF exc # "none"
        THEN Result(c2, "-", exc, <<>>, None, reqs, p.logins, CauseOf(rg.k))
        ELSE IF rg.status # "0"
        THEN Result(c2, "None", "none", <<>>, None, reqs, p.logins,
                    IF rg.status = "missing" THEN "nostatus" ELSE "vendor")
        ELSE IF rg.other = None
        THEN Result(c2, "None", "none", <<>>, None, reqs, p.logins, "nocontent")
        ELSE Result(c2, "content", "none", <<>>, rg.other, reqs, p.logins, "none")

\* async_get_weather_history
AsyncGetWeatherHistory(c, rl, rg) ==
    Guarded(HistoryHandlers, AsyncGetWeatherHistoryBody(c, rl, rg), "None")

\* async_get_binded_devices, the body of its try block
AsyncGetBindedDevicesBody(c, rl, rg) ==
    LET p == EnsureToken(c, rl)
        c2 == GetSession(p.c)
        reqs == Append(p.reqs, Req("GET", "/weather/getBindedDevice", c2.token))
        exc == ExcOf(rg.k)
    IN  IF p.ret # "go"
        THEN p
        ELSE IF rg.k \in {"timeout", "transport"}
        THEN Result(c2, "-", exc, <<>>, None, reqs, p.logins, CauseOf(rg.k))
        ELSE IF rg.http # 200
        THEN Result(c2, "None", "none", <<>>, None, reqs, p.logins, "http")
        ELSE IF exc # "none"
        THEN Result(c2, "-", exc, <<>>, None, reqs, p.logins, CauseOf(rg.k))
        ELSE IF rg.status # "0"
        THEN Result(c2, "None", "none", <<>>, None, reqs, p.logins,
                    IF rg.status = "missing" THEN "nostatus" ELSE "vendor")
        ELSE IF rg.other = None
        THEN Result(c2, "[]", "none", <<>>, None, reqs, p.logins, "nocontent")
        ELSE Result(c2, "content", "none", <<>>, rg.other, reqs, p.logins, "none")

\* async_get_binded_devices
AsyncGetBindedDevices(c, rl, rg) ==
    Guarded(DevicesHandlers, AsyncGetBindedDevicesBody(c, rl, rg), "None")

\* Variant of AsyncClose that closes whenever a session object is held
AsyncCloseHeld(c) ==
    IF c.session # "none"
    THEN [c EXCEPT !.session = "closed", !.open_sessions = @ - 1]
    ELSE c

\* async_close: closes the session when one is held and open
AsyncClose(c) ==
    IF c.session = "open"
    THEN [c EXCEPT !.session = "closed", !.open_sessions = @ - 1]
    ELSE c

(***************************************************************************)
(* EmaxWeatherCoordinator (__init__.py)                                    *)
(***************************************************************************)
\* The except clauses of _async_update_data, in order, and the UpdateFailed
\* each raises: "Timeout communicating with API", "Invalid data from API",
\* "Error updating data".
UpdateFailedFor(exc) ==
    CASE exc = "TimeoutError" -> "Timeout"
      [] exc = "ValueError" -> "InvalidData"
      [] OTHER -> "Generic"

\* The only element of a one-element set: the value an awaited call gave
The(S) == CHOOSE x \in S : TRUE

\* `if not self.api_client.token: await self.api_client.async_login()`: the
\* value async_login returns is not looked at
UpdateLogin(c, rl1) ==
    IF Falsy(c.token)
    THEN AsyncLogin(c, rl1)
    ELSE Result(c, "-", "none", <<>>, None, <<>>, <<>>, "none")

\* Variant of UpdateOutcome without `if not weather_data: raise ValueError`
UpdateOutcomeNoCheck(l, w) ==
    [c |-> w.c, ret |-> "content", content |-> w.content, failure |-> "none",
     reqs |-> l.reqs \o w.reqs, logins |-> l.logins \o w.logins, cause |-> w.cause]

\* What _async_update_data ends in once async_login gave l and
\* async_get_realtime_weather gave w: the snapshot, or UpdateFailed of the
\* category the except clause that caught the exception chooses
UpdateOutcome(l, w) ==
    LET exc == IF l.raised # "none" THEN l.raised
               ELSE IF w.raised # "none" THEN w.raised
               ELSE IF w.ret # "content" THEN "ValueError"
               ELSE "none"
    IN  IF exc = "none"
        THEN [c |-> w.c, ret |-> "content", content |-> w.content, failure |-> "none",
              reqs |-> l.reqs \o w.reqs, logins |-> l.logins \o w.logins,
              cause |-> "none"]
        ELSE [c |-> IF l.raised # "none" THEN l.c ELSE w.c,
              ret |-> "UpdateFailed", content |-> <<>>,
              failure |-> UpdateFailedFor(exc),
              reqs |-> l.reqs \o w.reqs, logins |-> l.logins \o w.logins,
              cause |-> IF l.raised # "none" THEN l.cause ELSE w.cause]

\* _async_update_data.  ret "content" returns the snapshot; ret "UpdateFailed"
\* raises UpdateFailed of category `failure`.
AsyncUpdateData(c, rl1, rl2, rg) ==
    The(UNION {{UpdateOutcome(l, w) : w \in {AsyncGetRealtimeWeather(l.c, rl2, rg)}} :
                  l \in {UpdateLogin(c, rl1)}})

(***************************************************************************)
(* Sensor platform (sensor.py): descriptors                                *)
(***************************************************************************)
\* EmaxSensorDescription: sensor_type 0 stands for None, value_fn is the
\* top-level field its lambda reads ("" for no value_fn).
Desc(key, ty, fn, per) == [key |-> key, sensor_type |-> ty, value_fn |-> fn, per_channel |-> per]

SENSOR_DESCRIPTIONS == <<
    Desc("temperature", SENSOR_TYPE_TEMPERATURE, "", TRUE),
    Desc("humidity", SENSOR_TYPE_HUMIDITY, "", TRUE),
    Desc("pressure", 0, "", TRUE),
    Desc("wind_speed", SENSOR_TYPE_WIND_SPEED, "", TRUE),
    Desc("light", SENSOR_TYPE_LIGHT, "", TRUE),
    Desc("ultraviolet", SENSOR_TYPE_LIGHT, "", TRUE),
    Desc("noise", SENSOR_TYPE_NOISE, "", TRUE),
    Desc("rainfall", SENSOR_TYPE_RAINFALL, "", TRUE),
    Desc("device_mac", 0, "deviceMac", FALSE),
    Desc("update_time", 0, "updateTime", FALSE) >>

GLOBAL_SENSOR_DESCRIPTIONS == <<
    Desc("dev_timezone", 0, "devTimezone", FALSE),
    Desc("device_time", 0, "devTime", FALSE),
    Desc("wireless_status", 0, "wirelessStatus", FALSE),
    Desc("power_status", 0, "powerStatus", FALSE),
    Desc("weather_status", 0, "weatherStatus", FALSE) >>

PER_CHANNEL_EXTRA_DESCRIPTIONS == <<
    Desc("wind_hour_speed", SENSOR_TYPE_WIND_SPEED, "", TRUE),
    Desc("wind_day_speed", SENSOR_TYPE_WIND_SPEED, "", TRUE),
    Desc("wind_week_speed", SENSOR_TYPE_WIND_SPEED, "", TRUE),
    Desc("wind_month_speed", SENSOR_TYPE_WIND_SPEED, "", TRUE),
    Desc("wind_year_speed", SENSOR_TYPE_WIND_SPEED, "", TRUE),
    Desc("wind_direction", SENSOR_TYPE_WIND_SPEED, "", TRUE),
    Desc("rain_month", SENSOR_TYPE_RAINFALL, "", TRUE),
    Desc("rain_year", SENSOR_TYPE_RAINFALL, "", TRUE),
    Desc("rain_accumulated", SENSOR_TYPE_RAINFALL, "", TRUE),
    Desc("noise_hour_max", SENSOR_TYPE_NOISE, "", TRUE),
    Desc("noise_hour_avg", SENSOR_TYPE_NOISE, "", TRUE),
    Desc("noise_day_max", SENSOR_TYPE_NOISE, "", TRUE),
    Desc("noise_day_avg", SENSOR_TYPE_NOISE, "", TRUE),
    Desc("light_current", SENSOR_TYPE_LIGHT, "", TRUE),
    Desc("light_hour", SENSOR_TYPE_LIGHT, "", TRUE),
    Desc("light_max", SENSOR_TYPE_LIGHT, "", TRUE) >>

AllDescriptions ==
    SENSOR_DESCRIPTIONS \o GLOBAL_SENSOR_DESCRIPTIONS \o PER_CHANNEL_EXTRA_DESCRIPTIONS

Range(f) == {f[i] : i \in DOMAIN f}

DescOf(key) == CHOOSE de \in Range(AllDescriptions) : de.key = key

\* key.startswith("wind_")
WindKeys == {"wind_speed", "wind_hour_speed", "wind_day_speed", "wind_week_speed",
             "wind_month_speed", "wind_year_speed", "wind_direction"}

\* The key-to-field mappings of native_value
WindField(key) ==
    CASE key = "wind_hour_speed" -> "hourWindSpeed"
      [] key = "wind_day_speed" -> "dayWindSpeed"
      [] key = "wind_week_speed" -> "weekWindSpeed"
      [] key = "wind_month_speed" -> "monthWindSpeed"
      [] key = "wind_year_speed" -> "yearWindSpeed"
      [] key = "wind_direction" -> "windDirection"
      [] OTHER -> "currWindSpeed"

RainKeys == {"rain_month", "rain_year", "rain_accumulated"}

RainField(key) ==
    CASE key = "rain_month" -> "monthRainfall"
      [] key = "rain_year" -> "yearRainfall"
      [] OTHER -> "accumulateRainfall"

NoiseKeys == {"noise_hour_max", "noise_hour_avg", "noise_day_max", "noise_day_avg", "noise"}

NoiseField(key) ==
    CASE key = "noise_hour_max" -> "hourNoiseMax"
      [] key = "noise_hour_avg" -> "hourNoiseAvg"
      [] key = "noise_day_max" -> "dayNoiseMax"
      [] OTHER -> "dayNoiseAvg"

\* Candidate order of the bare "noise" key
NoiseCandidates == <<"hourNoiseAvg", "dayNoiseAvg", "hourNoiseMax", "dayNoiseMax">>

LightKeys == {"light_current", "light_hour", "light_max", "ultraviolet", "light"}

LightField(key) ==
    CASE key = "light_hour" -> "hourLightIntensity"
      [] key = "light_max" -> "lightIntensityMax"
      [] key = "ultraviolet" -> "currUltraviolet"
      [] OTHER -> "currLightIntensity"

(***************************************************************************)
(* Sensor platform: channel discovery and native_value                     *)
(***************************************************************************)
Min(S) == CHOOSE x \in S : \A y \in S : x <= y

\* Channels 1-3 are dropped from the discovered set
EXCLUDED_CHANNELS == {1, 2, 3}

\* Variant of DiscoverChannels that forgets to drop channels 1..3
DiscoverChannelsKeepsAll(d) ==
    LET sensors == SensorDatas(d)
    IN  {ChannelInt(sensors[i]).n :
            i \in {j \in 1..Len(sensors) : ChannelInt(sensors[j]).ok}} \cup {0}

\* async_setup_entry, channel discovery: the int() of every entry's channel
\* (entries where int() raises are skipped), plus 0, minus 1..3.
DiscoverChannels(d) ==
    LET sensors == SensorDatas(d)
        found == {ChannelInt(sensors[i]).n :
                    i \in {j \in 1..Len(sensors) : ChannelInt(sensors[j]).ok}}
    IN  (found \cup {0}) \ EXCLUDED_CHANNELS

\* async_setup_entry, the entities created for a channel set: <<channel, key>>
CreateEntities(chs) ==
    {<<ch, SENSOR_DESCRIPTIONS[i].key>> :
        ch \in chs,
        i \in {j \in 1..Len(SENSOR_DESCRIPTIONS) :
                 SENSOR_DESCRIPTIONS[j].per_channel}}
    \cup {<<ch, SENSOR_DESCRIPTIONS[i].key>> :
        ch \in chs \ {0},
        i \in {j \in 1..Len(SENSOR_DESCRIPTIONS) :
                 ~SENSOR_DESCRIPTIONS[j].per_channel}}
    \cup {<<ch, PER_CHANNEL_EXTRA_DESCRIPTIONS[i].key>> :
        ch \in chs, i \in 1..Len(PER_CHANNEL_EXTRA_DESCRIPTIONS)}
    \cup {<<0, GLOBAL_SENSOR_DESCRIPTIONS[i].key>> :
        i \in 1..Len(GLOBAL_SENSOR_DESCRIPTIONS)}

\* isinstance(value, (int, float)) and value in (65535, 255, 65535.0)
IsSentinel(v) == IsNumber(v) /\ (NumEq(v, SENTINEL_WORD) \/ NumEq(v, SENTINEL_BYTE))

Normalize(v) == IF IsSentinel(v) THEN NoneV ELSE v

\* (value - 32) * 5 / 9 inside try/except: a non-number is left as it is
Fahrenheit(v) ==
    IF IsNumber(v) THEN Frac((v.n - 32 * v.d) * 5, 9 * v.d) ELSE v

\* Outcome of native_value.  value: what is returned; raised: the exception
\* that leaves the property ("none" when it returns); src: index in
\* sensorDatas of the entry the value was read from (0 when none); via: the
\* path taken; raw: the value as extracted, before conversion and sentinel
\* normalisation.
Reading(value, raised, src, via, raw) ==
    [value |-> value, raised |-> raised, src |-> src, via |-> via, raw |-> raw]

Absent(via) == Reading(NoneV, "none", 0, via, NoneV)

\* Variant of WindValue whose fallback takes the first wind entry, populated
\* or not
WindValueFirstWind(sensors, channel, key) ==
    LET wind == {i \in 1..Len(sensors) : sensors[i].type = SENSOR_TYPE_WIND_SPEED}
        same == {i \in wind : /\ ChannelInt(sensors[i]).ok
                              /\ ChannelInt(sensors[i]).n = channel
                              /\ ChannelInt(sensors[i]).n # 0}
        chosen == IF same # {} THEN Min(same)
                  ELSE IF wind # {} THEN Min(wind)
                  ELSE 0
        via == IF same # {} THEN "same" ELSE "fallback"
    IN  IF chosen = 0
        THEN Absent("nowind")
        ELSE LET dev == GetMap(sensors[chosen].devWindVal)
                 curr == MapGet(dev, "currWindSpeed")
                 value == IF key = "wind_speed"
                          THEN IF ~IsNone(curr) THEN curr ELSE sensors[chosen].curVal
                          ELSE MapGet(dev, WindField(key))
             IN  IF dev.k = "null"
                 THEN Reading(NoneV, "AttributeError", chosen, via, NoneV)
                 ELSE Reading(Normalize(value), "none", chosen, via, value)

\* native_value, the wind branch
WindValue(sensors, channel, key) ==
    LET wind == {i \in 1..Len(sensors) : sensors[i].type = SENSOR_TYPE_WIND_SPEED}
        same == {i \in wind : /\ ChannelInt(sensors[i]).ok
                              /\ ChannelInt(sensors[i]).n = channel
                              /\ ChannelInt(sensors[i]).n # 0}
        fallback == {i \in wind : MapTruthy(sensors[i].devWindVal)}
        chosen == IF same # {} THEN Min(same)
                  ELSE IF fallback # {} THEN Min(fallback)
                  ELSE 0
        via == IF same # {} THEN "same" ELSE "fallback"
    IN  IF chosen = 0
        THEN Absent("nowind")
        ELSE LET dev == GetMap(sensors[chosen].devWindVal)
                 curr == MapGet(dev, "currWindSpeed")
                 value == IF key = "wind_speed"
                          THEN IF ~IsNone(curr) THEN curr ELSE sensors[chosen].curVal
                          ELSE MapGet(dev, WindField(key))
             IN  IF dev.k = "null"
                 THEN Reading(NoneV, "AttributeError", chosen, via, NoneV)
                 ELSE Reading(Normalize(value), "none", chosen, via, value)

\* Variant of NoiseValue that takes the first candidate present, sentinel or
\* not
NoiseValueKeepsSentinel(noise) ==
    LET cand == [i \in 1..Len(NoiseCandidates) |-> MapGet(noise, NoiseCandidates[i])]
        live == {i \in 1..Len(NoiseCandidates) : ~IsNone(cand[i])}
    IN  IF live = {} THEN NoneV ELSE cand[Min(live)]

\* native_value, the candidates of the bare "noise" key: sentinels become
\* None, the first that is not None wins
NoiseValue(noise) ==
    LET cand == [i \in 1..Len(NoiseCandidates) |->
                    LET v == MapGet(noise, NoiseCandidates[i])
                    IN  IF NumEq(v, SENTINEL_WORD) \/ NumEq(v, SENTINEL_BYTE)
                        THEN NoneV ELSE v]
        live == {i \in 1..Len(NoiseCandidates) : ~IsNone(cand[i])}
    IN  IF live = {} THEN NoneV ELSE cand[Min(live)]

\* Variant of EntryStep that does not compare the entry's channel with the
\* entity's
EntryStepAnyChannel(sensor, channel, desc) ==
    LET ci == ChannelInt(sensor) IN
    IF ~ci.ok THEN "skip"
    ELSE IF sensor.type # desc.sensor_type THEN "skip"
    ELSE IF sensor.channel.k = "missing" THEN "raise"
    ELSE IF sensor.channel.k = "int" /\ sensor.channel.n \in EXCLUDED_CHANNELS THEN "skip"
    ELSE "match"

\* native_value, the default loop: what one entry does to the scan.  "skip"
\* continues with the next entry, "raise" leaves with KeyError (sensor["channel"]
\* on an entry without the key), "match" returns from this entry.
EntryStep(sensor, channel, desc) ==
    LET ci == ChannelInt(sensor) IN
    IF ~ci.ok THEN "skip"
    ELSE IF sensor.type # desc.sensor_type THEN "skip"
    ELSE IF ci.n # channel THEN "skip"
    ELSE IF sensor.channel.k = "missing" THEN "raise"
    ELSE IF sensor.channel.k = "int" /\ sensor.channel.n \in EXCLUDED_CHANNELS THEN "skip"
    ELSE "match"

\* native_value, the value read from a matched entry
EntryValue(sensor, i, key) ==
    LET cur == IF key = "temperature" /\ ~IsNone(sensor.curVal)
               THEN Fahrenheit(sensor.curVal) ELSE sensor.curVal
        nested == IF key \in RainKeys THEN GetMap(sensor.devRainfullVals)
                  ELSE IF key \in NoiseKeys THEN GetMap(sensor.devNoiseVals)
                  ELSE GetMap(sensor.devLightVals)
        raw == IF key \in RainKeys THEN MapGet(nested, RainField(key))
               ELSE IF key = "noise" THEN NoiseValue(nested)
               ELSE IF key \in NoiseKeys THEN MapGet(nested, NoiseField(key))
               ELSE IF key \in LightKeys THEN MapGet(nested, LightField(key))
               ELSE sensor.curVal
        value == IF key \in RainKeys \cup NoiseKeys \cup LightKeys THEN raw ELSE cur
    IN  IF key \in RainKeys \cup NoiseKeys \cup LightKeys /\ nested.k = "null"
        THEN Reading(NoneV, "AttributeError", i, "match", NoneV)
        ELSE Reading(Normalize(value), "none", i, "match", raw)

\* native_value, the default loop over sensorDatas
ScanValue(sensors, channel, desc) ==
    LET hit == {i \in 1..Len(sensors) : EntryStep(sensors[i], channel, desc) # "skip"}
    IN  IF hit = {} THEN Absent("nomatch")
        ELSE IF EntryStep(sensors[Min(hit)], channel, desc) = "raise"
        THEN Reading(NoneV, "KeyError", Min(hit), "match", NoneV)
        ELSE EntryValue(sensors[Min(hit)], Min(hit), desc.key)

\* Variant of AfterNativeValue that takes the entry it read out of the list
AfterNativeValueConsumes(d, src) ==
    IF src = 0 THEN d
    ELSE <<[d[1] EXCEPT !.sensorDatas =
                [i \in 1..(Len(@) - 1) |-> IF i < src THEN @[i] ELSE @[i + 1]]]>>

\* coordinator.data after native_value returned from entry src: the property
\* only reads (dict.get, indexing, list building), it assigns to nothing
\* reachable from the snapshot
AfterNativeValue(d, src) == d

\* EmaxWeatherSensor.native_value for the entity (channel, desc) on
\* coordinator.data d
NativeValue(d, channel, desc) ==
    IF NoData(d) THEN Absent("nodata")
    ELSE IF desc.value_fn # ""
    THEN Reading(d[1].top[desc.value_fn], "none", 0, "value_fn", d[1].top[desc.value_fn])
    ELSE IF desc.sensor_type # 0
    THEN IF desc.sensor_type = SENSOR_TYPE_WIND_SPEED \/ desc.key \in WindKeys
         THEN WindValue(SensorDatas(d), channel, desc.key)
         ELSE ScanValue(SensorDatas(d), channel, desc)
    ELSE IF desc.key = "pressure"
    THEN Reading(d[1].top["atmos"], "none", 0, "atmos", d[1].top["atmos"])
    ELSE Absent("none")

(***************************************************************************)
(* Inputs: the snapshots the vendor may return                             *)
(***************************************************************************)
\* Longest sensorDatas list built from CoreEntries
MaxEntries == 2

\* All maps from a subset of `fields` to `vals`
MapsOver(fields, vals) ==
    UNION {{Map(m) : m \in [fs -> vals]} : fs \in SUBSET fields}

ScalarEntry(ch, ty, cur) == Entry(ch, ty, cur, NoMap, NoMap, NoMap, NoMap)

WindEntry(ch, cur, wind) == Entry(ch, SENSOR_TYPE_WIND_SPEED, cur, wind, NoMap, NoMap, NoMap)

RainEntry(ch, cur, rain) == Entry(ch, SENSOR_TYPE_RAINFALL, cur, NoMap, rain, NoMap, NoMap)

NoiseEntry(ch, noise) == Entry(ch, SENSOR_TYPE_NOISE, NoneV, NoMap, NoMap, noise, NoMap)

LightEntry(ch, light) == Entry(ch, SENSOR_TYPE_LIGHT, NoneV, NoMap, NoMap, NoMap, light)

\* Channel fields as they may arrive
RawChannels == {ChInt(0), ChInt(2), ChInt(5), ChStr(2), ChStr(5), ChMissing, ChNull, ChBad}

FewChannels == {ChInt(0), ChInt(5), ChMissing}

\* curVal of the flat scalar sensors: 491 F is 255 C, 212 F is 100 C
CurVals == {NoneV, Num(0), Num(212), Num(491), Num(SENTINEL_BYTE), Num(SENTINEL_WORD), Text}

FullWindMap ==
    Map([f \in {"currWindSpeed", "hourWindSpeed", "dayWindSpeed", "weekWindSpeed",
                "monthWindSpeed", "yearWindSpeed", "windDirection"} |->
         CASE f = "currWindSpeed" -> Num(11)
           [] f = "hourWindSpeed" -> Num(12)
           [] f = "dayWindSpeed" -> Num(13)
           [] f = "weekWindSpeed" -> Num(14)
           [] f = "monthWindSpeed" -> Num(15)
           [] f = "yearWindSpeed" -> Num(SENTINEL_WORD)
           [] OTHER -> Num(SENTINEL_BYTE)])

WindMaps ==
    {NoMap, NullMap, FullWindMap}
    \cup MapsOver({"currWindSpeed", "windDirection"}, {Num(3), Num(SENTINEL_BYTE)})

RainMaps ==
    {NoMap, NullMap}
    \cup MapsOver({"monthRainfall", "accumulateRainfall"}, {Num(9), Num(SENTINEL_WORD)})

\* A level of its own for each noise field, and the sentinel it may hold
NoiseLevel(f) ==
    CASE f = "hourNoiseAvg" -> Num(41)
      [] f = "dayNoiseAvg" -> Num(42)
      [] f = "hourNoiseMax" -> Num(43)
      [] OTHER -> Num(44)

NoiseSentinel(f) ==
    IF f \in {"hourNoiseAvg", "dayNoiseAvg"} THEN Num(SENTINEL_BYTE) ELSE Num(SENTINEL_WORD)

NoiseMaps ==
    {NoMap, NullMap}
    \cup UNION {{Map([f \in fs |-> IF live[f] THEN NoiseLevel(f) ELSE NoiseSentinel(f)]) :
                    live \in [fs -> BOOLEAN]} :
                   fs \in SUBSET {"hourNoiseAvg", "dayNoiseAvg", "hourNoiseMax", "dayNoiseMax"}}

LightMaps ==
    {NoMap, NullMap}
    \cup MapsOver({"currLightIntensity", "currUltraviolet"}, {Num(800), Num(SENTINEL_WORD)})

\* Entries that appear alone in a snapshot
RichEntries ==
    {ScalarEntry(ch, ty, cur) :
        ch \in RawChannels,
        ty \in {SENSOR_TYPE_TEMPERATURE, SENSOR_TYPE_HUMIDITY, SENSOR_TYPE_PRESSURE},
        cur \in CurVals}
    \cup {WindEntry(ch, cur, w) : ch \in RawChannels, cur \in {NoneV, Num(7)}, w \in WindMaps}
    \cup {RainEntry(ch, cur, r) : ch \in FewChannels, cur \in {Num(1)}, r \in RainMaps}
    \cup {NoiseEntry(ch, n) : ch \in {ChInt(0), ChInt(5)}, n \in NoiseMaps}
    \cup {LightEntry(ch, l) : ch \in FewChannels, l \in LightMaps}

\* Entries that appear in lists of up to MaxEntries
CoreEntries ==
    {WindEntry(ch, Num(7), w) :
        ch \in {ChInt(0), ChInt(5)}, w \in {NoMap, Map([f \in {"currWindSpeed"} |-> Num(3)])}}
    \cup {WindEntry(ChBad, Num(7), Map([f \in {"currWindSpeed"} |-> Num(3)]))}
    \cup {ScalarEntry(ch, SENSOR_TYPE_TEMPERATURE, Num(212)) :
        ch \in {ChInt(5), ChMissing, ChInt(2)}}
    \cup {ScalarEntry(ChInt(5), SENSOR_TYPE_TEMPERATURE, Num(SENTINEL_WORD))}

SeqsUpTo(S, n) == UNION {[1..k -> S] : k \in 0..n}

\* Top-level scalars: at most one field set
Tops ==
    {NoTop}
    \cup {[f \in TopFields |-> IF f = g THEN v ELSE NoneV] :
            g \in TopFields, v \in {Num(1013), Num(SENTINEL_WORD), Num(SENTINEL_BYTE), Text}}

Snapshots ==
    {Snapshot(TRUE, sd, NoTop) : sd \in SeqsUpTo(CoreEntries, MaxEntries)}
    \cup {Snapshot(TRUE, <<e>>, NoTop) : e \in RichEntries}
    \cup {Snapshot(hs, IF hs THEN <<ScalarEntry(ChInt(5), SENSOR_TYPE_PRESSURE, Num(1000))>>
                        ELSE <<>>, t) :
            hs \in BOOLEAN, t \in Tops \ {NoTop}}

\* The two snapshots the vendor alternates between in the client/coordinator model
SnapA ==
    Snapshot(TRUE, <<ScalarEntry(ChInt(0), SENSOR_TYPE_TEMPERATURE, Num(212))>>, NoTop)

SnapB ==
    Snapshot(TRUE, <<WindEntry(ChInt(5), Num(7), FullWindMap)>>,
             [NoTop EXCEPT !["atmos"] = Num(1013)])

RealtimeResponses ==
    {GetResp(k, 200, "0", <<>>, None) : k \in ResponseKinds \ {"object"}}
    \cup {GetResp("object", 200, "0", c, None) : c \in {<<>>, <<EmptyDict>>, <<SnapA>>, <<SnapB>>}}

HistoryResponses ==
    {GetResp(k, 200, "0", <<>>, None) : k \in ResponseKinds \ {"object"}}
    \cup {GetResp("object", 500, "0", <<>>, "records")}
    \cup {GetResp("object", 200, st, <<>>, "records") : st \in {"1", "missing"}}
    \cup {GetResp("object", 200, "0", <<>>, o) : o \in {None, "records"}}

DeviceResponses ==
    {GetResp(k, 200, "0", <<>>, None) : k \in ResponseKinds \ {"object"}}
    \cup {GetResp("object", 500, "0", <<>>, "devices")}
    \cup {GetResp("object", 200, st, <<>>, "devices") : st \in {"1", "missing"}}
    \cup {GetResp("object", 200, "0", <<>>, o) : o \in {None, "devices"}}

(***************************************************************************)
(* State machine of the client and the coordinator                         *)
(***************************************************************************)
\* Record of a completed operation: pre is the token held when it was called
\* created: connections the operation created; closes: one record per
\* async_close it ran, with the client before and after; left_open: the
\* operation replaced a client whose connection was open, or dropped the one
\* it constructed with its connection open, while another stays in use
OpRec(op, pre, res, failure) ==
    [op |-> op, pre |-> pre, ret |-> res.ret, raised |-> res.raised,
     content |-> res.content, other |-> res.other, reqs |-> res.reqs,
     logins |-> res.logins, cause |-> res.cause, failure |-> failure,
     created |-> res.c.created, closes |-> <<>>, left_open |-> FALSE]

NoOp ==
    [op |-> "none", pre |-> None, ret |-> "-", raised |-> "none", content |-> <<>>,
     other |-> None, reqs |-> <<>>, logins |-> <<>>, cause |-> "none", failure |-> "none",
     created |-> 0, closes |-> <<>>, left_open |-> FALSE]

CloseRec(pre, post) == [pre |-> pre, post |-> post]

NoReading == [channel |-> 0, key |-> "", out |-> Absent("never")]

\* A client and its coordinator right after construction: no token, no
\* session, no data; the sensor platform is not set up.
Init ==
    /\ token = None
    /\ user_data = NoUserData
    /\ session = "none"
    /\ open_sessions = 0
    /\ data = <<>>
    /\ last_update_success = FALSE
    /\ last = NoOp
    /\ lastGood = <<>>
    /\ channels = {}
    /\ entities = {}
    /\ reading = NoReading
    /\ reread = NoReading
    /\ entry_state \in {"no_entry", "not_loaded"}
    /\ hass_data = FALSE
    /\ platforms = FALSE
    /\ service = FALSE
    /\ scan_interval = 0
    /\ update_interval = SCAN_INTERVAL

SetClient(c) ==
    /\ token' = c.token
    /\ user_data' = c.user_data
    /\ session' = c.session
    /\ open_sessions' = c.open_sessions

AnyLogin == LoginResp("timeout", "missing", None)

AnyGet == GetResp("timeout", 200, "0", <<>>, None)

\* The responses an operation called on client c can consume: a login response
\* only when it logs in, a GET response only when it gets as far as the GET
LoginInputs(c) == IF Falsy(c.token) THEN LoginResponses ELSE {AnyLogin}

GetInputs(c, rl, S) == IF EnsureToken(c, rl).ret = "go" THEN S ELSE {AnyGet}

\* The client as _async_update_data leaves it before async_get_realtime_weather
AfterFirstLogin(c, rl1) == IF Falsy(c.token) THEN AsyncLogin(c, rl1).c ELSE c

\* A caller awaits async_login
Login(r) ==
    /\ entry_state = "no_entry"
    /\ \E res \in {AsyncLogin(Client, r)} :
           /\ SetClient(res.c)
           /\ last' = OpRec("login", token, res, "none")
           /\ UNCHANGED <<coordVars, sensorVars, entryVars>>

\* A caller awaits async_get_realtime_weather
GetRealtime(rl, rg) ==
    /\ entry_state = "no_entry"
    /\ \E res \in {AsyncGetRealtimeWeather(Client, rl, rg)} :
           /\ SetClient(res.c)
           /\ last' = OpRec("realtime", token, res, "none")
           /\ UNCHANGED <<coordVars, sensorVars, entryVars>>

\* A caller awaits async_get_weather_history
GetHistory(rl, rg) ==
    /\ entry_state = "no_entry"
    /\ \E res \in {AsyncGetWeatherHistory(Client, rl, rg)} :
           /\ SetClient(res.c)
           /\ last' = OpRec("history", token, res, "none")
           /\ UNCHANGED <<coordVars, sensorVars, entryVars>>

\* A caller awaits async_get_binded_devices
GetDevices(rl, rg) ==
    /\ entry_state = "no_entry"
    /\ \E res \in {AsyncGetBindedDevices(Client, rl, rg)} :
           /\ SetClient(res.c)
           /\ last' = OpRec("devices", token, res, "none")
           /\ UNCHANGED <<coordVars, sensorVars, entryVars>>

\* A caller awaits async_close
Close ==
    /\ entry_state = "no_entry"
    /\ SetClient(AsyncClose(Client))
    /\ last' = [NoOp EXCEPT !.op = "close", !.pre = token,
                            !.closes = <<CloseRec(Client, AsyncClose(Client))>>]
    /\ UNCHANGED <<coordVars, sensorVars, entryVars>>

\* Whether the realtime GET of a refresh was answered with usable content
Accepted(reqs, rg) ==
    /\ \E i \in 1..Len(reqs) : reqs[i].m = "GET"
    /\ rg.k = "object"
    /\ rg.content # <<>>
    /\ ~IsEmptyDict(rg.content[1])

\* The coordinator of a loaded entry refreshes on its timer and on the
\* refresh_weather service; the service handler registered by async_setup_entry
\* is never removed and holds its coordinator, so it still refreshes after
\* the entry was unloaded.
RefreshEnabled ==
    \/ entry_state = "loaded"
    \/ entry_state = "unloaded" /\ service

\* One refresh of the coordinator (timer tick or refresh_weather service):
\* _async_update_data runs; the DataUpdateCoordinator base class stores what it
\* returns in coordinator.data and, when it raises UpdateFailed, keeps the data
\* and clears last_update_success.
Refresh(rl1, rl2, rg) ==
    /\ RefreshEnabled
    /\ \E res \in {AsyncUpdateData(Client, rl1, rl2, rg)} :
           /\ SetClient(res.c)
           /\ IF res.ret = "content"
              THEN data' = res.content /\ last_update_success' = TRUE
              ELSE data' = data /\ last_update_success' = FALSE
           /\ lastGood' = IF Accepted(res.reqs, rg) THEN rg.content ELSE lastGood
           /\ last' = [op |-> "refresh", pre |-> token, ret |-> res.ret, raised |-> "none",
                       content |-> res.content, other |-> None, reqs |-> res.reqs,
                       logins |-> res.logins, cause |-> res.cause, failure |-> res.failure,
                       created |-> res.c.created, closes |-> <<>>, left_open |-> FALSE]
           /\ UNCHANGED <<sensorVars, entryVars>>

(***************************************************************************)
(* Config entry life cycle (__init__.py) and config flow (config_flow.py)  *)
(***************************************************************************)
\* EmaxWeatherCoordinator.__init__: the interval is the constant, whatever
\* the entry's options hold
CoordinatorInterval(option) == SCAN_INTERVAL

\* Variant of SetupOutcome that stores and registers before looking at the
\* first refresh
SetupOutcomeStoresFirst(first, registered) ==
    [ok |-> first.ret = "content", hass_data |-> TRUE, platforms |-> TRUE,
     service |-> TRUE]

\* async_setup_entry after the first refresh ended as `first`:
\* async_config_entry_first_refresh raises ConfigEntryNotReady when the
\* refresh failed, which leaves async_setup_entry before it has stored,
\* forwarded or registered anything; registered tells whether an earlier
\* setup left the service registered.
SetupOutcome(first, registered) ==
    IF first.ret = "content"
    THEN [ok |-> TRUE, hass_data |-> TRUE, platforms |-> TRUE, service |-> TRUE]
    ELSE [ok |-> FALSE, hass_data |-> FALSE, platforms |-> FALSE, service |-> registered]

\* Home Assistant sets the entry up: async_setup_entry constructs a client and
\* a coordinator, runs the first refresh and, when it succeeded, stores both,
\* sets up the sensor platform and registers the service.  The client an
\* earlier setup constructed is not touched: nothing closes it here.
SetupEntry(rl1, rl2, rg) ==
    /\ entry_state \in {"not_loaded", "setup_retry", "unloaded"}
    /\ \E first \in {AsyncUpdateData(FreshClient, rl1, rl2, rg)} :
       \E out \in {SetupOutcome(first, service)} :
           /\ SetClient(first.c)
           /\ update_interval' = CoordinatorInterval(scan_interval)
           /\ data' = IF first.ret = "content" THEN first.content ELSE <<>>
           /\ last_update_success' = (first.ret = "content")
           /\ lastGood' = IF Accepted(first.reqs, rg) THEN rg.content ELSE <<>>
           /\ hass_data' = out.hass_data
           /\ platforms' = out.platforms
           /\ service' = out.service
           /\ entry_state' = IF out.ok THEN "loaded" ELSE "setup_retry"
           /\ channels' = IF out.platforms THEN DiscoverChannels(data') ELSE {}
           /\ entities' = IF out.platforms THEN CreateEntities(channels') ELSE {}
           /\ reading' = NoReading
           /\ reread' = NoReading
           /\ last' = [op |-> "setup", pre |-> None, ret |-> first.ret, raised |-> "none",
                       content |-> first.content, other |-> None, reqs |-> first.reqs,
                       logins |-> first.logins, cause |-> first.cause,
                       failure |-> first.failure, created |-> first.c.created,
                       closes |-> <<>>, left_open |-> (session = "open")]
           /\ UNCHANGED scan_interval

\* Home Assistant unloads the entry: async_unload_entry; ok is what
\* async_unload_platforms returned.  The service stays registered.
UnloadEntry(ok) ==
    /\ entry_state = "loaded"
    /\ IF ok
       THEN /\ SetClient(AsyncClose(Client))
            /\ hass_data' = FALSE
            /\ platforms' = FALSE
            /\ entry_state' = "unloaded"
            /\ channels' = {}
            /\ entities' = {}
            /\ last' = [NoOp EXCEPT !.op = "unload", !.pre = token, !.ret = "True",
                                    !.closes = <<CloseRec(Client, AsyncClose(Client))>>]
       ELSE /\ last' = [NoOp EXCEPT !.op = "unload", !.pre = token, !.ret = "False"]
            /\ UNCHANGED <<clientVars, hass_data, platforms, entry_state, channels,
                           entities>>
    /\ reading' = NoReading
    /\ reread' = NoReading
    /\ UNCHANGED <<coordVars, service, scan_interval, update_interval>>

\* The update listener runs async_reload_entry on a loaded entry:
\* async_unload_entry, its result not looked at, then async_setup_entry.  ok is
\* what async_unload_platforms returned.  When the unload did not succeed the
\* old client stays open and the old platform stays set up; when the first
\* refresh of the new coordinator fails, ConfigEntryNotReady leaves the
\* listener after line 48 and the new client is dropped as it is.
ReloadEntry(ok, rl1, rl2, rg) ==
    /\ entry_state = "loaded"
    /\ \E old \in {IF ok THEN AsyncClose(Client) ELSE Client} :
       \E first \in {AsyncUpdateData(FreshClient, rl1, rl2, rg)} :
       \E out \in {SetupOutcome(first, service)} :
           /\ IF ok \/ out.ok
              THEN /\ SetClient(first.c)
                   /\ data' = IF out.ok THEN first.content ELSE <<>>
                   /\ last_update_success' = out.ok
                   /\ lastGood' = IF Accepted(first.reqs, rg) THEN rg.content ELSE <<>>
              ELSE UNCHANGED <<clientVars, coordVars>>
           /\ update_interval' = CoordinatorInterval(scan_interval)
           /\ hass_data' = (out.hass_data \/ ~ok)
           /\ platforms' = (out.platforms \/ ~ok)
           /\ service' = out.service
           /\ entry_state' = IF out.ok \/ ~ok THEN "loaded" ELSE "reload_failed"
           /\ channels' = IF ~ok THEN channels
                          ELSE IF out.platforms THEN DiscoverChannels(data') ELSE {}
           /\ entities' = IF ~ok THEN entities
                          ELSE IF out.platforms THEN CreateEntities(channels') ELSE {}
           /\ reading' = NoReading
           /\ reread' = NoReading
           /\ last' = [op |-> "reload", pre |-> None, ret |-> first.ret, raised |-> "none",
                       content |-> first.content, other |-> None, reqs |-> first.reqs,
                       logins |-> first.logins, cause |-> first.cause,
                       failure |-> first.failure, created |-> first.c.created,
                       closes |-> IF ok THEN <<CloseRec(Client, old)>> ELSE <<>>,
                       left_open |-> IF ok \/ out.ok THEN old.session = "open"
                                     ELSE first.c.session = "open"]
           /\ UNCHANGED scan_interval

\* The responses the vendor gives during a reload: the login times out or
\* succeeds, the realtime call times out or brings a snapshot
ReloadLoginResponses ==
    {LoginResp("timeout", "missing", None), LoginResp("object", "dict", "abc123")}

ReloadRealtimeResponses ==
    {GetResp("timeout", 200, "0", <<>>, None)}
    \cup {GetResp("object", 200, "0", c, None) : c \in {<<SnapA>>, <<SnapB>>}}

\* Values the options form accepts for scan_interval: Range(min=1, max=60)
ScanIntervals == {1, 60}

\* EmaxWeatherOptionsFlow.async_step_init with user input: the options are
\* stored.  Taken while the entry is not loaded, when no update listener is
\* registered.
OptionsStepInit(v) ==
    /\ entry_state \in {"not_loaded", "setup_retry", "unloaded"}
    /\ scan_interval' = v
    /\ last' = [NoOp EXCEPT !.op = "options"]
    /\ UNCHANGED <<clientVars, coordVars, sensorVars, entry_state, hass_data,
                   platforms, service, update_interval>>

\* What async_step_user ends in once async_login gave l; dup tells whether
\* _abort_if_unique_id_configured raises.  The AbortFlow it raises is caught
\* by `except Exception`; `finally` closes the client on every path.
StepUserOutcome(l, dup) ==
    IF l.raised = "none" /\ l.ret = "True" /\ ~dup
    THEN [c |-> AsyncClose(AsyncClose(l.c)), ret |-> "create_entry", errors |-> "none",
          closes |-> <<CloseRec(l.c, AsyncClose(l.c)),
                       CloseRec(AsyncClose(l.c), AsyncClose(AsyncClose(l.c)))>>]
    ELSE [c |-> AsyncClose(l.c), ret |-> "form",
          errors |-> IF l.raised = "none" /\ l.ret = "False"
                     THEN "invalid_auth" ELSE "cannot_connect",
          closes |-> <<CloseRec(l.c, AsyncClose(l.c))>>]

\* EmaxWeatherConfigFlow.async_step_user with user input, on a client of its own
StepUser(r, dup) ==
    /\ entry_state = "no_entry"
    /\ \E l \in {AsyncLogin(FreshClient, r)} :
       \E out \in {StepUserOutcome(l, dup)} :
           /\ SetClient(out.c)
           /\ last' = [OpRec("step_user", None, l, out.errors) EXCEPT
                           !.ret = out.ret, !.closes = out.closes]
           /\ UNCHANGED <<coordVars, sensorVars, entryVars>>

Next ==
    \/ \E r \in LoginResponses : Login(r)
    \/ \E rl \in LoginInputs(Client) :
          \E rg \in GetInputs(Client, rl, RealtimeResponses) : GetRealtime(rl, rg)
    \/ \E rl \in LoginInputs(Client) :
          \E rg \in GetInputs(Client, rl, HistoryResponses) : GetHistory(rl, rg)
    \/ \E rl \in LoginInputs(Client) :
          \E rg \in GetInputs(Client, rl, DeviceResponses) : GetDevices(rl, rg)
    \/ Close
    \/ \E rl1 \in LoginInputs(Client) :
          \E rl2 \in LoginInputs(AfterFirstLogin(Client, rl1)) :
             \E rg \in GetInputs(AfterFirstLogin(Client, rl1), rl2, RealtimeResponses) :
                Refresh(rl1, rl2, rg)
    \/ \E rl1 \in LoginResponses :
          \E rl2 \in LoginInputs(AfterFirstLogin(FreshClient, rl1)) :
             \E rg \in GetInputs(AfterFirstLogin(FreshClient, rl1), rl2, RealtimeResponses) :
                SetupEntry(rl1, rl2, rg)
    \/ \E ok \in BOOLEAN : UnloadEntry(ok)
    \/ \E ok \in BOOLEAN, rl1 \in ReloadLoginResponses :
          \E rl2 \in LoginInputs(AfterFirstLogin(FreshClient, rl1)) \cap
                        (ReloadLoginResponses \cup {AnyLogin}) :
             \E rg \in GetInputs(AfterFirstLogin(FreshClient, rl1), rl2,
                                  ReloadRealtimeResponses) :
                ReloadEntry(ok, rl1, rl2, rg)
    \/ \E v \in ScanIntervals : OptionsStepInit(v)
    \/ \E r \in LoginResponses, dup \in BOOLEAN : StepUser(r, dup)

Spec == Init /\ [][Next]_vars

(***************************************************************************)
(* State machine of the sensor platform: the coordinator holds some        *)
(* snapshot, the platform was set up on an earlier one.                    *)
(***************************************************************************)
\* Snapshots the platform may have been set up on: they give the entities
\* the channels 0, -1 (an entry without channel) and 7; 2 is dropped.
SetupSnapshots ==
    {Snapshot(TRUE, sd, NoTop) :
        sd \in SeqsUpTo({ScalarEntry(ch, SENSOR_TYPE_TEMPERATURE, Num(68)) :
                            ch \in {ChInt(7), ChMissing, ChInt(2)}}, 2)}

InitSensor ==
    /\ token = "abc123"
    /\ user_data = LoginContent("abc123")
    /\ session = "open"
    /\ open_sessions = 1
    /\ data \in {<<>>} \cup {<<s>> : s \in Snapshots}
    /\ last_update_success = (data # <<>>)
    /\ last = NoOp
    /\ lastGood = data
    /\ channels \in {DiscoverChannels(<<s>>) : s \in SetupSnapshots}
    /\ entities = CreateEntities(channels)
    /\ reading = NoReading
    /\ reread = NoReading
    /\ entry_state = "loaded"
    /\ hass_data = TRUE
    /\ platforms = TRUE
    /\ service = TRUE
    /\ scan_interval = 0
    /\ update_interval = SCAN_INTERVAL

\* sensor.async_setup_entry on the data the coordinator holds now
SensorSetup ==
    /\ channels' = DiscoverChannels(data)
    /\ entities' = CreateEntities(channels')
    /\ reading' = NoReading
    /\ reread' = NoReading
    /\ UNCHANGED <<clientVars, coordVars, last, entryVars>>

\* Home Assistant reads native_value of entity e to write the entity's state
ReadNative(e) ==
    /\ reading = NoReading
    /\ reading' = [channel |-> e[1], key |-> e[2],
                   out |-> NativeValue(data, e[1], DescOf(e[2]))]
    /\ data' = AfterNativeValue(data, reading'.out.src)
    /\ UNCHANGED <<clientVars, last_update_success, lastGood, last, channels,
                   entities, reread, entryVars>>

\* The same entity's native_value is read once more before the state is written
ReadAgain ==
    /\ reading # NoReading
    /\ reread = NoReading
    /\ reread' = [channel |-> reading.channel, key |-> reading.key,
                  out |-> NativeValue(data, reading.channel, DescOf(reading.key))]
    /\ data' = AfterNativeValue(data, reread'.out.src)
    /\ UNCHANGED <<clientVars, last_update_success, lastGood, last, channels,
                   entities, reading, entryVars>>

\* Home Assistant has written the state it read
WriteState ==
    /\ reading # NoReading
    /\ reading' = NoReading
    /\ reread' = NoReading
    /\ UNCHANGED <<clientVars, coordVars, last, channels, entities, entryVars>>

NextSensor ==
    \/ SensorSetup
    \/ \E e \in entities : ReadNative(e)
    \/ ReadAgain
    \/ WriteState

SpecSensor == InitSensor /\ [][NextSensor]_vars

(***************************************************************************)
(* Properties                                                              *)
(***************************************************************************)
HasReading == reading # NoReading

\* The sensorDatas entry the last reading was taken from
SourceEntry == SensorDatas(data)[reading.out.src]

\* C1: whenever the value native_value extracted from the snapshot is the
\* number 65535 or 255, it returns None -- for every descriptor, the
\* value_fn descriptors and the atmos fallback included.
C1_SentinelNeverReturned ==
    (HasReading /\ reading.out.raised = "none" /\ IsSentinel(reading.out.raw))
        => IsNone(reading.out.value)

\* C2: the entry native_value takes a wind-family reading from never has
\* channel 0, whether the same-channel step or the fallback step chose it.
C2_WindSourceNotChannelZero ==
    (HasReading /\ reading.key \in WindKeys /\ reading.out.src # 0)
        => ~(ChannelInt(SourceEntry).ok /\ ChannelInt(SourceEntry).n = 0)

\* C3: the channel set the sensor platform discovered contains 0 and none
\* of 1, 2, 3, whatever the snapshot holds.
C3_DiscoveredChannels ==
    /\ 0 \in channels
    /\ channels \cap {1, 2, 3} = {}

\* C3 witness: setup ran on a list holding an entry on channel 2 and one on
\* channel 5; only 5 joined channel 0.
C3_Witness ==
    /\ \E i \in 1..Len(SensorDatas(data)) : SensorDatas(data)[i].channel = ChInt(2)
    /\ \E i \in 1..Len(SensorDatas(data)) : SensorDatas(data)[i].channel = ChInt(5)
    /\ channels = {0, 5}

\* C4: when async_login returned true the client holds the token of the
\* response, and an async_get_realtime_weather called next issues exactly
\* one request, the GET carrying that token, and no login.
C4_LoginThenRealtime ==
    /\ []((last.op = "login" /\ last.ret = "True")
            => token = last.logins[1].resp.token)
    /\ [][(last.op = "login" /\ last.ret = "True" /\ last'.op = "realtime")
            => last'.reqs = <<Req("GET", "/weather/devData/getRealtime",
                                  last.logins[1].resp.token)>>]_vars

\* C5: every async_login that returned false (run directly or inside another
\* operation) left token and user_data as they were when it was called.
C5_FailedLoginKeepsToken ==
    /\ \A i \in 1..Len(last.logins) :
          last.logins[i].ret = "False"
            => /\ last.logins[i].post.token = last.logins[i].pre.token
               /\ last.logins[i].post.user_data = last.logins[i].pre.user_data
    /\ (last.op = "login" /\ last.ret = "False")
          => token = last.pre /\ user_data = last.logins[1].pre.user_data

\* C5 witness: a login timed out while an earlier token was held; the token
\* is still there.
C5_Witness ==
    /\ last.op = "login"
    /\ last.ret = "False"
    /\ last.cause = "timeout"
    /\ last.pre = "abc123"
    /\ token = "abc123"

\* C6: async_get_realtime_weather called without a token starts with the
\* login request; if the login fails it returns None and that request is
\* the only one it issued.
C6_LoginFirstNoGetOnFailure ==
    (last.op = "realtime" /\ Falsy(last.pre))
        => /\ Len(last.reqs) >= 1
           /\ last.reqs[1] = Req("POST", "/account/login", NoHeader)
           /\ last.logins[1].ret = "False"
                => /\ last.ret = "None"
                   /\ Len(last.reqs) = 1

\* C6 witness: called without a token, the login found no token in the
\* response, None came back after the single POST.
C6_Witness ==
    /\ last.op = "realtime"
    /\ last.pre = None
    /\ last.logins # <<>>
    /\ last.logins[1].ret = "False"
    /\ last.cause = "notoken"
    /\ last.ret = "None"
    /\ Len(last.reqs) = 1

ClientOps == {"login", "realtime", "history", "devices"}

\* Timeout, transport error, body that is no JSON / no JSON object, missing
\* content, token or status field
FailureCauses == {"timeout", "transport", "malformed", "notoken", "nocontent", "nostatus"}

FailureReturn(op) == IF op = "login" THEN "False" ELSE "None"

\* C7 as claimed: on a timeout, a transport error or a malformed payload each
\* of the four operations raises nothing and returns false (login) or None.
C7_FailuresReturnAbsent ==
    (last.op \in ClientOps /\ last.cause \in FailureCauses)
        => /\ last.raised = "none"
           /\ last.ret = FailureReturn(last.op)

\* C7 amended: as claimed, except that async_get_binded_devices returns an
\* empty list when the response has status "0" and no content field.
C7_FailuresReturnAbsentOrEmptyList ==
    (last.op \in ClientOps /\ last.cause \in FailureCauses)
        => /\ last.raised = "none"
           /\ IF last.op = "devices" /\ last.cause = "nocontent"
              THEN last.ret = "[]"
              ELSE last.ret = FailureReturn(last.op)

\* C7 witness: the history request failed in transport and None came back
C7_Witness ==
    /\ last.op = "history"
    /\ last.cause = "transport"
    /\ Len(last.reqs) >= 1
    /\ last.raised = "none"
    /\ last.ret = "None"

\* C8: the snapshot the coordinator holds is the content of the most recent
\* realtime response a refresh accepted; it is None only while there was
\* none, and never an empty dict.
C8_DataIsLastGoodSnapshot ==
    /\ data = lastGood
    /\ data # <<>> => ~IsEmptyDict(data[1])

\* C8 witness: a refresh failed after an earlier one had stored SnapA, which
\* is still held.
C8_Witness ==
    /\ last.op = "refresh"
    /\ last.ret = "UpdateFailed"
    /\ ~last_update_success
    /\ data = <<SnapA>>

\* C10: the failure a refresh surfaces names its cause: Timeout when the
\* login or the realtime call timed out, InvalidData when the response
\* arrived without content.
C10_FailureMatchesCause ==
    (last.op = "refresh" /\ last.ret = "UpdateFailed")
        => /\ last.cause = "timeout" => last.failure = "Timeout"
           /\ last.cause = "nocontent" => last.failure = "InvalidData"

\* C11: a setup whose first refresh failed leaves the entry not set up:
\* nothing is stored in hass.data for it, the sensor platform is not set up,
\* and the step registers no service (the service is registered afterwards
\* only if an earlier setup had registered it).  The same holds for the setup
\* a reload runs; when the reload's unload did not succeed, what the earlier
\* setup stored is still there, unchanged.
C11_FailedSetupStoresNothing ==
    /\ [](entry_state = "setup_retry" => ~hass_data /\ ~platforms /\ entities = {})
    /\ [][(last'.op = "setup" /\ last'.ret = "UpdateFailed")
            => /\ entry_state' = "setup_retry"
               /\ ~hass_data'
               /\ ~platforms'
               /\ service' = service]_vars
    /\ [][(last'.op = "reload" /\ last'.ret = "UpdateFailed")
            => /\ service' = service
               /\ IF last'.closes # <<>>
                  THEN ~hass_data' /\ ~platforms'
                  ELSE UNCHANGED <<clientVars, coordVars, hass_data, platforms>>]_vars

\* C11 witness: the first refresh of a first setup timed out; nothing is
\* stored, set up or registered.
C11_Witness ==
    /\ last.op = "setup"
    /\ last.ret = "UpdateFailed"
    /\ last.cause = "timeout"
    /\ Len(last.reqs) >= 1
    /\ entry_state = "setup_retry"
    /\ ~hass_data /\ ~platforms /\ ~service

\* C12: once async_unload_entry has succeeded the client's connection is
\* closed, and while the entry stays unloaded it stays closed and no step
\* issues a request.
C12_NoCallsAfterUnload ==
    /\ []((last.op = "unload" /\ last.ret = "True") => session # "open")
    /\ [][(entry_state = "unloaded" /\ entry_state' = "unloaded")
            => /\ session' # "open"
               /\ last' # last => last'.reqs = <<>>]_vars

OnHeldClient == ClientOps \cup {"close", "refresh", "unload"}

\* C13: an operation run on a client that holds a token leaves it holding
\* one, and a fetch or a refresh run on such a client sends no login request.
C13_TokenKeptNoRelogin ==
    [][(~Falsy(token) /\ last'.op \in OnHeldClient)
        => /\ ~Falsy(token')
           /\ last'.op \in {"realtime", "history", "devices", "refresh"}
                => \A i \in 1..Len(last'.reqs) : last'.reqs[i].m # "POST"]_vars

\* C14: a constructed client has no connection; a client never has more than
\* one open connection; an operation run while the connection is open
\* creates none, and an operation creates at most one, and only when none
\* was held or the held one was closed.
C14_OneConnectionReused ==
    /\ [](open_sessions \in {0, 1} /\ (open_sessions = 1 <=> session = "open"))
    /\ [](last.op = "none" => session = "none" /\ open_sessions = 0)
    /\ [][(last'.op \in OnHeldClient)
            => /\ session = "open" => last'.created = 0
               /\ last'.created <= 1
               /\ last'.created = 1 => session \in {"none", "closed"}]_vars

\* C14 witness: a realtime fetch sent its GET on the connection already open
C14_Witness ==
    /\ last.op = "realtime"
    /\ ~Falsy(last.pre)
    /\ Len(last.reqs) = 1
    /\ last.created = 0
    /\ session = "open"
    /\ open_sessions = 1

\* C15: an async_close that finds no open connection changes nothing; one
\* that finds it open closes it and changes nothing else; none raises.  (After
\* a reload the client held is the new one, not the one that was closed.)
C15_CloseIdempotent ==
    /\ \A i \in 1..Len(last.closes) :
          LET pre == last.closes[i].pre
              post == last.closes[i].post
          IN  /\ pre.session # "open" => post = pre
              /\ pre.session = "open"
                    => post = [pre EXCEPT !.session = "closed", !.open_sessions = 0]
    /\ (last.closes # <<>> /\ last.op # "reload")
          => /\ last.raised = "none"
             /\ session = last.closes[Len(last.closes)].post.session
             /\ open_sessions = last.closes[Len(last.closes)].post.open_sessions
             /\ token = last.closes[Len(last.closes)].post.token

\* C15 witness: the config flow created the entry, closing its client twice;
\* the second close found the connection closed and changed nothing.
C15_Witness ==
    /\ last.op = "step_user"
    /\ last.ret = "create_entry"
    /\ Len(last.closes) = 2
    /\ last.closes[1].pre.session = "open"
    /\ last.closes[1].post.session = "closed"
    /\ last.closes[2].pre.session = "closed"
    /\ last.closes[2].post = last.closes[2].pre
    /\ session = "closed"

\* C20: the coordinator of a loaded entry refreshes every scan_interval
\* minutes when the option is set (1 to 60), every 10 minutes otherwise.
C20_IntervalIsConfigured ==
    entry_state = "loaded"
        => update_interval = IF scan_interval \in 1..60 THEN scan_interval ELSE 10

\* Wind-type entries of the snapshot held
WindEntries ==
    {i \in 1..Len(SensorDatas(data)) : SensorDatas(data)[i].type = SENSOR_TYPE_WIND_SPEED}

\* C16: a wind-family reading requested on channel c is taken from the first
\* wind-type entry on channel c when c is not 0 and there is one; otherwise
\* from the first wind-type entry whose devWindVal is populated, whatever its
\* channel; with neither, the reading is absent.
C16_WindSource ==
    (HasReading /\ reading.key \in WindKeys /\ ~NoData(data))
        => LET c == reading.channel
               same == {i \in WindEntries : /\ ChannelInt(SensorDatas(data)[i]).ok
                                             /\ ChannelInt(SensorDatas(data)[i]).n = c}
               populated == {i \in WindEntries :
                               LET w == SensorDatas(data)[i].devWindVal
                               IN  w.k = "map" /\ DOMAIN w.m # {}}
           IN  IF c # 0 /\ same # {}
               THEN reading.out.src = Min(same)
               ELSE IF populated # {}
               THEN reading.out.src = Min(populated)
               ELSE /\ reading.out.src = 0
                    /\ reading.out.raised = "none"
                    /\ IsNone(reading.out.value)

\* C16 witness: the only wind entry is on channel 5 and holds currWindSpeed;
\* wind_speed requested on channel 7 was answered from it.
C16_Witness ==
    /\ HasReading
    /\ reading.key = "wind_speed"
    /\ reading.channel = 7
    /\ Len(SensorDatas(data)) = 1
    /\ SensorDatas(data)[1].channel = ChInt(5)
    /\ reading.out.src = 1
    /\ reading.out.via = "fallback"
    /\ reading.out.value = MapGet(SensorDatas(data)[1].devWindVal, "currWindSpeed")
    /\ IsNumber(reading.out.value)

PressureEntries ==
    {i \in 1..Len(SensorDatas(data)) : SensorDatas(data)[i].type = SENSOR_TYPE_PRESSURE}

PressureEntriesOnChannel ==
    {i \in PressureEntries : /\ ChannelInt(SensorDatas(data)[i]).ok
                              /\ ChannelInt(SensorDatas(data)[i]).n = reading.channel}

\* C18: the pressure reading is the top-level atmos field when sensorDatas
\* holds no pressure-type entry, and the curVal of the pressure-type entry on
\* the requested channel when there is one.
C18_PressureFallbackOnly ==
    (HasReading /\ reading.key = "pressure" /\ ~NoData(data))
        => /\ PressureEntries = {} => reading.out.value = data[1].top["atmos"]
           /\ PressureEntriesOnChannel # {}
                => reading.out.value = SensorDatas(data)[Min(PressureEntriesOnChannel)].curVal

\* C19: a temperature reading taken from an entry with a numeric curVal v is
\* (v - 32) * 5 / 9; a reading of any other descriptor taken from curVal is
\* that curVal unconverted.
C19_TemperatureConversion ==
    (HasReading /\ reading.out.via = "match" /\ reading.out.raised = "none"
       /\ IsNumber(SourceEntry.curVal))
        => LET v == SourceEntry.curVal
               r == reading.out.value
           IN  /\ reading.key = "temperature"
                    => /\ IsNumber(r)
                       /\ r.n * 9 * v.d = (v.n - 32 * v.d) * 5 * r.d
               /\ (reading.key \in {"humidity"} /\ IsNumber(r)) => r = v

\* C21: a client that is dropped has no open connection: the client of a
\* setup whose first refresh failed, the client of an entry that was
\* unloaded, and the client of the config flow on each of its exits.
C21_DiscardedClientClosed ==
    /\ (last.op = "setup" /\ last.ret = "UpdateFailed") => session # "open"
    /\ entry_state = "reload_failed" => session # "open"
    /\ (last.op = "unload" /\ last.ret = "True") => session # "open"
    /\ last.op = "step_user" => session # "open"

\* C22: no setup, unload or reload of a config entry leaves a client with an
\* open connection behind next to the current one, and the current one has
\* an open connection (and its coordinator refreshes) only while it is stored
\* in hass.data.
C22_OneStoredOpenClient ==
    entry_state # "no_entry"
        => /\ ~last.left_open
           /\ session = "open" => hass_data
           /\ RefreshEnabled => hass_data

\* Login requests among the requests of the last operation
LoginRequests == {i \in 1..Len(last.reqs) : last.reqs[i].m = "POST"}

\* C23: one run of _async_update_data (a refresh, or the first refresh of a
\* setup or a reload) sends at most one login request.
C23_OneLoginPerRefresh ==
    last.op \in {"refresh", "setup", "reload"} => Cardinality(LoginRequests) <= 1

\* C24: a value native_value returns is never read from an entry whose
\* channel is 1, 2 or 3, whichever descriptor and channel it was asked for and
\* whichever step (same channel, wind fallback, default scan) chose the entry.
C24_NoReadingFromExcluded ==
    (HasReading /\ reading.out.src # 0 /\ reading.out.raised = "none"
       /\ ~IsNone(reading.out.value))
        => ~(ChannelInt(SourceEntry).ok /\ ChannelInt(SourceEntry).n \in EXCLUDED_CHANNELS)

\* Entries of the snapshot held whose type is the type of the descriptor last
\* read and whose channel is the channel last read
MatchingEntries ==
    {i \in 1..Len(SensorDatas(data)) :
        /\ SensorDatas(data)[i].type = DescOf(reading.key).sensor_type
        /\ ChannelInt(SensorDatas(data)[i]).ok
        /\ ChannelInt(SensorDatas(data)[i]).n = reading.channel}

\* C25: for a descriptor with a sensor type other than wind, the entry a
\* reading is taken from has the descriptor's type and the requested channel;
\* a humidity reading that is returned is that entry's curVal; when no entry
\* has both, native_value returns None.
C25_ScanSource ==
    (HasReading /\ ~NoData(data)
       /\ DescOf(reading.key).sensor_type \notin {0, SENSOR_TYPE_WIND_SPEED})
        => /\ reading.out.src # 0 => reading.out.src \in MatchingEntries
           /\ (reading.key = "humidity" /\ reading.out.src # 0
                 /\ reading.out.raised = "none" /\ ~IsNone(reading.out.value))
                => reading.out.value = SourceEntry.curVal
           /\ MatchingEntries = {}
                => /\ reading.out.src = 0
                   /\ reading.out.raised = "none"
                   /\ IsNone(reading.out.value)

\* C25 witness: the snapshot holds two temperature entries, neither on
\* channel 0; the temperature of channel 0 is None.
C25_Witness ==
    /\ HasReading
    /\ reading.key = "temperature"
    /\ reading.channel = 0
    /\ Len(SensorDatas(data)) = 2
    /\ \A i \in 1..2 : SensorDatas(data)[i].type = SENSOR_TYPE_TEMPERATURE
    /\ MatchingEntries = {}
    /\ reading.out.src = 0
    /\ IsNone(reading.out.value)

\* The order in which the bare noise reading prefers the four noise fields
NoiseOrder == <<"hourNoiseAvg", "dayNoiseAvg", "hourNoiseMax", "dayNoiseMax">>

C27_GlobalOnChannelZeroOnly ==
    \A i \in 1..Len(AllDescriptions) :
        ~AllDescriptions[i].per_channel
            => {e \in entities : e[2] = AllDescriptions[i].key}
                  = {<<0, AllDescriptions[i].key>>}

====
